---------------------------- MODULE Spec2Model ----------------------------
(***************************************************************************)
(* Dilithium (round 3) key generation, signing and verification as written *)
(* in include/dilithium.hpp, as a state machine whose steps are the        *)
(* statements of keygen, sign and verify.                                  *)
(*                                                                         *)
(* The template is instantiated at a scaled parameter tuple (ring degree   *)
(* N = 8, modulus Q = 12289, k = l = 2) on which every routine is computed *)
(* exactly as on the standard tuples; byte strings keep their lengths      *)
(* (32-byte seeds, 64-byte mu and rho', 32-byte challenge hash).           *)
(* polyvec::, sampling::, bit_packing::, ntt:: and shake256:: are headers  *)
(* outside include/dilithium.hpp; they are modelled from their description.*)
(***************************************************************************)
EXTENDS Integers, Sequences, FiniteSets, TLC

\* ------------------------------------------------------------ parameters
N == 8                    \* ntt::N, coefficients per polynomial
Q == 12289                \* field::Q, a prime with 2N | Q - 1
ZETA == 722               \* primitive 2N-th root of unity modulo Q
K == 2                    \* template parameter k
L == 2                    \* template parameter l
D == 8                    \* template parameter d
ETA == 2                  \* template parameter eta
GAMMA1 == 512             \* template parameter gamma1
GAMMA2 == 384             \* template parameter gamma2
TAU == 2                  \* template parameter tau
BETA == 4                 \* template parameter beta = tau * eta
OMEGA == 3                \* template parameter omega

RECURSIVE bit_width(_)
bit_width(x) == IF x = 0 THEN 0 ELSE 1 + bit_width(x \div 2)

RECURSIVE Pow2(_)
Pow2(n) == IF n = 0 THEN 1 ELSE 2 * Pow2(n - 1)

t1_bw == bit_width(Q) - D
eta_bw == bit_width(2 * ETA)
gamma1_bw == bit_width(GAMMA1)
ALPHA == 2 * GAMMA2
m == (Q - 1) \div ALPHA
w1bw == bit_width(m - 1)
t0_rng == Pow2(D - 1)

pub_key_len == 32 + K * t1_bw * (N \div 8)
sec_key_len == 96 + (N \div 8) * (K * eta_bw + L * eta_bw + K * D)
sig_len == 32 + (N \div 8) * L * gamma1_bw + OMEGA + K

\* ------------------------------------------------------------ bytes, SHAKE
Rep(b, n) == [i \in 1..n |-> b]

Min(S) == CHOOSE x \in S : \A y \in S : x <= y
Max(S) == CHOOSE x \in S : \A y \in S : y <= x

\* the r-th smallest element of a set of numbers, r from 1
Nth(S, r) == CHOOSE x \in S : Cardinality({y \in S : y < x}) = r - 1

Slice(s, off, len) == SubSeq(s, off + 1, off + len)

\* little-endian 16-bit encoding of a nonce
LE16(x) == <<x % 256, (x \div 256) % 256>>

RECURSIVE XorBits(_, _, _)
XorBits(a, b, n) ==
    IF n = 0 THEN 0
    ELSE ((a + b) % 2) + 2 * XorBits(a \div 2, b \div 2, n - 1)

\* The sponge: absorb folds the bytes into a state (a polynomial hash of the
\* bytes, computed by halving), squeeze block i is a mix of the state and i.
\* dom separates SHAKE-128 (0) from SHAKE-256 (1).
HP == 32749

RECURSIVE PowModP(_, _)
PowModP(b, e) ==
    IF e = 0 THEN 1
    ELSE IF e % 2 = 0
         THEN LET h == PowModP(b, e \div 2) IN (h * h) % HP
         ELSE (b * PowModP(b, e - 1)) % HP

PowTab == [e \in 0..255 |-> PowModP(257, e)]

RECURSIVE HashRange(_, _, _)
HashRange(bs, lo, hi) ==
    IF lo = hi THEN (bs[lo] + 1) % HP
    ELSE LET mid == (lo + hi) \div 2
         IN  (HashRange(bs, lo, mid) * PowTab[(hi - mid) % 256]
              + HashRange(bs, mid + 1, hi)) % HP

Absorbed(bs) == IF Len(bs) = 0 THEN 0 ELSE HashRange(bs, 1, Len(bs))

XofInit(bs, dom) == (Absorbed(bs) * 2 + dom + 7 * Len(bs)) % HP

\* byte i (from 0) of the output stream of state s
XofByte(s, i) ==
    LET x == (s * 211 + i * 8191 + 1) % HP
        y == (x * x) % HP
    IN  ((y * 75 + x) % HP) % 256

XofBytes(s, n) == [i \in 1..n |-> XofByte(s, i - 1)]

\* shake256::shake256_t: absorb / finalize / squeeze / reset
hasher_new == [buf |-> <<>>, fin |-> FALSE]
absorb(hs, bs) == [hs EXCEPT !.buf = @ \o bs]
finalize(hs) == [hs EXCEPT !.fin = TRUE]
squeeze(hs, n) == XofBytes(XofInit(hs.buf, 1), n)
reset(hs) == hasher_new

\* ------------------------------------------------------------ field, ntt
zq(x) == x % Q
Signed(x) == IF x <= (Q - 1) \div 2 THEN x ELSE x - Q
Abs(x) == IF x < 0 THEN -x ELSE x

ZeroPoly == [i \in 1..N |-> 0]
ZeroVec(n) == [i \in 1..n |-> ZeroPoly]

RECURSIVE PowMod(_, _)
PowMod(b, e) == IF e = 0 THEN 1 ELSE (b * PowMod(b, e - 1)) % Q

ZetaPow == [e \in 0..(2 * N - 1) |-> PowMod(ZETA, e)]
NInv == CHOOSE x \in 1..(Q - 1) : (x * N) % Q = 1

RECURSIVE BitRev(_, _)
BitRev(i, bits) ==
    IF bits = 0 THEN 0
    ELSE (i % 2) * Pow2(bits - 1) + BitRev(i \div 2, bits - 1)

Brv == [i \in 0..(N - 1) |-> BitRev(i, bit_width(N - 1))]

RECURSIVE NttSum(_, _, _, _)
NttSum(a, root, j, acc) ==
    IF j > N THEN acc
    ELSE NttSum(a, root, j + 1,
                (acc + a[j] * ZetaPow[(root * (j - 1)) % (2 * N)]) % Q)

\* forward transform: evaluation at the odd powers of zeta, bit-reversed order
ntt_poly(a) == [i \in 1..N |-> NttSum(a, 2 * Brv[i - 1] + 1, 1, 0)]

NegExp(e) == ((2 * N) - (e % (2 * N))) % (2 * N)

RECURSIVE InttSum(_, _, _, _)
InttSum(a, j, i, acc) ==
    IF i > N THEN acc
    ELSE InttSum(a, j, i + 1,
                 (acc + a[i] * ZetaPow[NegExp((2 * Brv[i - 1] + 1) * (j - 1))]) % Q)

intt_poly(a) == [j \in 1..N |-> (NInv * InttSum(a, j, 1, 0)) % Q]

poly_mul(a, b) == [i \in 1..N |-> (a[i] * b[i]) % Q]
poly_add(a, b) == [i \in 1..N |-> (a[i] + b[i]) % Q]

\* ------------------------------------------------------------ polyvec
P2 == [n \in 0..16 |-> Pow2(n)]

polyvec_ntt(v) == [i \in 1..Len(v) |-> ntt_poly(v[i])]
polyvec_intt(v) == [i \in 1..Len(v) |-> intt_poly(v[i])]

RECURSIVE RowSum(_, _, _, _, _)
RowSum(A, v, i, j, acc) ==
    IF j > Len(v) THEN acc
    ELSE RowSum(A, v, i, j + 1,
                poly_add(acc, poly_mul(A[(i - 1) * Len(v) + j], v[j])))

\* matrix_multiply<k, l, l, 1>(A, v, out): out = A * v, coefficient-wise products
matrix_multiply(A, v) == [i \in 1..K |-> RowSum(A, v, i, 1, ZeroPoly)]

mul_by_poly(c, v) == [i \in 1..Len(v) |-> poly_mul(c, v[i])]

\* add_to(src, dst): dst += src
add_to(src, dst) == [i \in 1..Len(dst) |-> poly_add(src[i], dst[i])]

neg(v) == [i \in 1..Len(v) |-> [j \in 1..N |-> (Q - v[i][j]) % Q]]

sub_from_x(v, x) == [i \in 1..Len(v) |-> [j \in 1..N |-> (x + Q - v[i][j]) % Q]]

shl(v, d) == [i \in 1..Len(v) |-> [j \in 1..N |-> (v[i][j] * P2[d]) % Q]]

infinity_norm(v) ==
    Max({Abs(Signed(v[i][j])) : i \in 1..Len(v), j \in 1..N})

count_1s(v) ==
    Cardinality({x \in 0..(Len(v) * N - 1) : v[(x \div N) + 1][(x % N) + 1] = 1})

\* power2round: r = r1 * 2^d + r0 with r0 in (-2^(d-1), 2^(d-1)]
p2r_hi(r) == (r + P2[D - 1] - 1) \div P2[D]
p2r_lo(r) == (r + Q - p2r_hi(r) * P2[D]) % Q
power2round_hi(v) == [i \in 1..Len(v) |-> [j \in 1..N |-> p2r_hi(v[i][j])]]
power2round_lo(v) == [i \in 1..Len(v) |-> [j \in 1..N |-> p2r_lo(v[i][j])]]

\* decompose with alpha = 2 * gamma2; the result is <<r1, r0>>, r0 as a field element
decompose(r) ==
    LET a == r % ALPHA
        r0 == IF a > ALPHA \div 2 THEN a - ALPHA ELSE a
    IN  IF r - r0 = Q - 1
        THEN <<0, (r0 - 1 + Q) % Q>>
        ELSE <<(r - r0) \div ALPHA, (r0 + Q) % Q>>

highbits(v) == [i \in 1..Len(v) |-> [j \in 1..N |-> decompose(v[i][j])[1]]]
lowbits(v) == [i \in 1..Len(v) |-> [j \in 1..N |-> decompose(v[i][j])[2]]]

\* make_hint(z, r, h): h = 1 iff adding z to r changes the high bits
make_hint(z, r) ==
    [i \in 1..Len(r) |-> [j \in 1..N |->
        IF decompose(r[i][j])[1] # decompose((r[i][j] + z[i][j]) % Q)[1]
        THEN 1 ELSE 0]]

use_hint_coeff(h, r) ==
    LET d == decompose(r)
    IN  IF h = 1 /\ Signed(d[2]) > 0 THEN (d[1] + 1) % m
        ELSE IF h = 1 THEN (d[1] + m - 1) % m
        ELSE d[1]

use_hint(h, r) ==
    [i \in 1..Len(r) |-> [j \in 1..N |-> use_hint_coeff(h[i][j], r[i][j])]]

\* ------------------------------------------------------------ bit packing
PolyBit(p, w, i) == (p[(i \div w) + 1] \div P2[i % w]) % 2

RECURSIVE PackByte(_, _, _, _)
PackByte(p, w, b, t) ==
    IF t = 8 THEN 0
    ELSE PolyBit(p, w, 8 * b + t) * P2[t] + PackByte(p, w, b, t + 1)

encode_poly(p, w) == [b \in 1..((N * w) \div 8) |-> PackByte(p, w, b - 1, 0)]

\* polyvec::encode<n, w>: every coefficient as w little-endian bits
encode(v, w) ==
    LET sz == (N * w) \div 8
    IN  [x \in 1..(Len(v) * sz) |->
            encode_poly(v[((x - 1) \div sz) + 1], w)[((x - 1) % sz) + 1]]

ByteBit(bs, i) == (bs[(i \div 8) + 1] \div P2[i % 8]) % 2

RECURSIVE UnpackCoeff(_, _, _, _)
UnpackCoeff(bs, w, c, t) ==
    IF t = w THEN 0
    ELSE ByteBit(bs, c * w + t) * P2[t] + UnpackCoeff(bs, w, c, t + 1)

decode_poly(bs, w) == [c \in 1..N |-> UnpackCoeff(bs, w, c - 1, 0)]

\* polyvec::decode<n, w>
decode(bs, n, w) ==
    [i \in 1..n |-> decode_poly(Slice(bs, (i - 1) * ((N * w) \div 8), (N * w) \div 8), w)]

\* the 1s of a hint vector as numbers i * N + j (polynomial i, position j, from 0)
OneKeys(h) == {x \in 0..(Len(h) * N - 1) : h[(x \div N) + 1][(x % N) + 1] = 1}

\* bit_packing::encode_hint_bits<k, omega>: omega positions, then k running counts
encode_hint_bits(h) ==
    LET ones == OneKeys(h)
    IN  [x \in 1..(OMEGA + K) |->
            IF x <= OMEGA
            THEN (IF x <= Cardinality(ones) THEN Nth(ones, x) % N ELSE 0)
            ELSE Cardinality({y \in ones : y < (x - OMEGA) * N})]

RECURSIVE DecodeHintFrom(_, _, _, _)
DecodeHintFrom(bs, i, idx, h) ==
    IF i > K
    THEN [failed |-> \E j \in (idx + 1)..OMEGA : bs[j] # 0, h |-> h]
    ELSE LET till == bs[OMEGA + i]
         IN  IF \/ till < idx
                \/ till > OMEGA
                \/ \E j \in (idx + 2)..till : bs[j] <= bs[j - 1]
                \/ \E j \in (idx + 1)..till : bs[j] >= N
             THEN [failed |-> TRUE, h |-> h]
             ELSE DecodeHintFrom(bs, i + 1, till,
                    [h EXCEPT ![i] = [c \in 1..N |->
                        IF \E j \in (idx + 1)..till : bs[j] = c - 1 THEN 1 ELSE 0]])

\* bit_packing::decode_hint_bits<k, omega>: the flag is true on a malformed encoding
decode_hint_bits(bs) == DecodeHintFrom(bs, 1, 0, ZeroVec(K))

\* ------------------------------------------------------------ sampling
Window == 48              \* candidates examined by a rejection sampler
BallWindow == 1024        \* bytes examined by sample_in_ball per coefficient

UniformCand(s, t) == (XofByte(s, 2 * t) + 256 * XofByte(s, 2 * t + 1)) % P2[bit_width(Q)]

UniformPoly(s) ==
    LET acc == {t \in 0..(Window - 1) : UniformCand(s, t) < Q}
    IN  [c \in 1..N |-> UniformCand(s, Nth(acc, c))]

\* sampling::expand_a<k, l>: SHAKE-128 over rho || j || i, rejection sampling below Q
expand_a(rho) ==
    [x \in 1..(K * L) |->
        UniformPoly(XofInit(rho \o <<(x - 1) % L, (x - 1) \div L>>, 0))]

Nibble(s, n) ==
    IF n % 2 = 0 THEN XofByte(s, n \div 2) % 16 ELSE XofByte(s, n \div 2) \div 16

EtaPoly(s) ==
    LET acc == {n \in 0..(Window - 1) : Nibble(s, n) < 15}
    IN  [c \in 1..N |-> (ETA + Q - (Nibble(s, Nth(acc, c)) % 5)) % Q]

\* sampling::expand_s<eta, n, nonce>: SHAKE-256 over rho' || nonce + i
expand_s(rho_prime, n, nonce) ==
    [i \in 1..n |-> EtaPoly(XofInit(rho_prime \o LE16(nonce + i - 1), 1))]

\* sampling::expand_mask<gamma1, l>: SHAKE-256 over rho' || kappa + i, gamma1 - c
expand_mask(rho_prime, kappa) ==
    [i \in 1..L |->
        LET bs == XofBytes(XofInit(rho_prime \o LE16((kappa + i - 1) % 65536), 1),
                           (N * gamma1_bw) \div 8)
            p == decode_poly(bs, gamma1_bw)
        IN  [j \in 1..N |-> (GAMMA1 + Q - p[j]) % Q]]

\* first stream position from `from` whose byte is at most i
DrawAt(s, from, i) == Min({t \in from..(from + BallWindow - 1) : XofByte(s, t) <= i})

RECURSIVE BallFrom(_, _, _, _)
BallFrom(s, from, i, c) ==
    IF i > N - 1 THEN c
    ELSE LET at == DrawAt(s, from, i)
             j == XofByte(s, at)
             sbit == ByteBit(XofBytes(s, 8), i - (N - TAU))
             c1 == [c EXCEPT ![i + 1] = c[j + 1]]
             c2 == [c1 EXCEPT ![j + 1] = IF sbit = 0 THEN 1 ELSE Q - 1]
         IN  BallFrom(s, at + 1, i + 1, c2)

\* sampling::sample_in_ball<tau>: tau coefficients +-1, the rest 0
sample_in_ball(seedbytes) == BallFrom(XofInit(seedbytes, 1), 8, N - TAU, ZeroPoly)

\* ------------------------------------------------------------ state
VARIABLES
    pc,          \* the statement about to run
    seed,        \* keygen's 32-byte seed
    msg,         \* the message signed
    randomized,  \* sign's template parameter `randomized`
    rnd_seed,    \* sign's seed parameter (64 bytes when randomized, else empty)
    pubkey,      \* keygen's output span
    seckey,      \* keygen's output span, sign's input
    sig,         \* sign's output span
    call,        \* which of the two successive sign calls is running
    sig1,        \* the signature written by the first sign call
    vmsg,        \* verify's message argument
    vsig,        \* verify's signature argument
    result,      \* verify's return value
    cerr,        \* what has been written to std::cerr
    kg,          \* keygen's locals
    sg,          \* sign's locals
    vf,          \* verify's locals
    form,        \* for every polynomial vector, the form it is in
    lastOp,      \* the polyvec routine applied by the last step, with its operands' forms
    lp           \* the rejection loop of sign on its own (LoopSpec)

io == <<seed, msg, randomized, rnd_seed>>
bufs == <<pubkey, seckey, sig>>
calls == <<call, sig1, vmsg, vsig, result>>
vars == <<pc, seed, msg, randomized, rnd_seed, pubkey, seckey, sig, call, sig1,
          vmsg, vsig, result, cerr, kg, sg, vf, form, lastOp, lp>>

\* ------------------------------------------------------------ inputs
NumSeeds == 2             \* seeds b^32, b below NumSeeds
NumMsgs == 2              \* messages tried
NumRndSeeds == 2          \* 64-byte seeds tried by randomized signing
MaxIter == 6              \* iterations of sign's rejection loop that are followed

Seeds == {Rep(b, 32) : b \in 0..(NumSeeds - 1)}
Msgs == {Rep(7, n) : n \in 0..(NumMsgs - 1)}
RndSeeds == {Rep(b, 64) : b \in 1..NumRndSeeds}

\* ------------------------------------------------------------ vector forms
FormNames == {"A", "s1", "s2", "s1_prime", "t", "t1", "t0", "y", "y_prime", "w",
              "w0", "w1", "w2", "c", "z", "r0", "r1", "h0", "h1", "h"}
NoForms == [n \in FormNames |-> "zero"]
NoOp == [op |-> "none", forms |-> <<>>]
Applied(op, forms) == [op |-> op, forms |-> forms]

\* ------------------------------------------------------------ keygen
keygen_frame ==
    [hasher |-> hasher_new, seed_hash |-> Rep(0, 128),
     A |-> ZeroVec(K * L), s1 |-> ZeroVec(L), s2 |-> ZeroVec(K),
     s1_prime |-> ZeroVec(L), t |-> ZeroVec(K), t1 |-> ZeroVec(K),
     t0 |-> ZeroVec(K), tr |-> Rep(0, 32), MaskStr |-> <<>>]

kg_rho == Slice(kg.seed_hash, 0, 32)
kg_rho_prime == Slice(kg.seed_hash, 32, 64)
kg_key == Slice(kg.seed_hash, 96, 32)

\* writes bytes into a span at an offset
Store(buf, off, bs) ==
    [i \in 1..Len(buf) |-> IF i > off /\ i <= off + Len(bs) THEN bs[i - off] ELSE buf[i]]

skoff3 == 96
skoff4 == skoff3 + L * eta_bw * (N \div 8)
skoff5 == skoff4 + K * eta_bw * (N \div 8)

\* generateRandomBinaryString(eta): the strings of eta binary digits
BinaryStrings(n) == [1..n -> {0, 1}]

RECURSIVE BinaryValue(_, _)
BinaryValue(str, i) ==
    IF i > Len(str) THEN 0 ELSE str[i] * P2[Len(str) - i] + BinaryValue(str, i + 1)

\* xorBinaryStrings(MaskStr, s): every coefficient xor-ed with the mask
xorBinaryStrings(mask, v) ==
    [i \in 1..Len(v) |-> [j \in 1..N |->
        XorBits(v[i][j], BinaryValue(mask, 1), bit_width(Q))]]

KeygenHashSeed ==
    /\ pc = "keygen"
    /\ LET h1 == finalize(absorb(hasher_new, seed))
       IN  kg' = [keygen_frame EXCEPT !.hasher = h1, !.seed_hash = squeeze(h1, 128)]
    /\ form' = NoForms
    /\ lastOp' = NoOp
    /\ pc' = "kg_expand_a"
    /\ UNCHANGED <<io, bufs, calls, cerr, sg, vf, lp>>

KeygenExpandA ==
    /\ pc = "kg_expand_a"
    /\ kg' = [kg EXCEPT !.A = expand_a(kg_rho)]
    /\ form' = [form EXCEPT !["A"] = "ntt"]
    /\ lastOp' = NoOp
    /\ pc' = "kg_expand_s"
    /\ UNCHANGED <<io, bufs, calls, cerr, sg, vf, lp>>

KeygenExpandS ==
    /\ pc = "kg_expand_s"
    /\ kg' = [kg EXCEPT !.s1 = expand_s(kg_rho_prime, L, 0),
                        !.s2 = expand_s(kg_rho_prime, K, L)]
    /\ form' = [form EXCEPT !["s1"] = "normal", !["s2"] = "normal"]
    /\ lastOp' = NoOp
    /\ pc' = "kg_ntt_s1"
    /\ UNCHANGED <<io, bufs, calls, cerr, sg, vf, lp>>

KeygenNttS1 ==
    /\ pc = "kg_ntt_s1"
    /\ kg' = [kg EXCEPT !.s1_prime = polyvec_ntt(kg.s1)]
    /\ form' = [form EXCEPT !["s1_prime"] = "ntt"]
    /\ lastOp' = Applied("ntt", <<form["s1"]>>)
    /\ pc' = "kg_matrix_multiply"
    /\ UNCHANGED <<io, bufs, calls, cerr, sg, vf, lp>>

KeygenMatrixMultiply ==
    /\ pc = "kg_matrix_multiply"
    /\ kg' = [kg EXCEPT !.t = matrix_multiply(kg.A, kg.s1_prime)]
    /\ form' = [form EXCEPT !["t"] = "ntt"]
    /\ lastOp' = Applied("matrix_multiply", <<form["A"], form["s1_prime"]>>)
    /\ pc' = "kg_intt_t"
    /\ UNCHANGED <<io, bufs, calls, cerr, sg, vf, lp>>

KeygenInttT ==
    /\ pc = "kg_intt_t"
    /\ kg' = [kg EXCEPT !.t = polyvec_intt(kg.t)]
    /\ form' = [form EXCEPT !["t"] = "normal"]
    /\ lastOp' = Applied("intt", <<form["t"]>>)
    /\ pc' = "kg_add_s2"
    /\ UNCHANGED <<io, bufs, calls, cerr, sg, vf, lp>>

KeygenAddS2 ==
    /\ pc = "kg_add_s2"
    /\ kg' = [kg EXCEPT !.t = add_to(kg.s2, kg.t)]
    /\ lastOp' = Applied("add_to", <<form["s2"], form["t"]>>)
    /\ pc' = "kg_power2round"
    /\ UNCHANGED <<io, bufs, calls, cerr, sg, vf, form, lp>>

KeygenPower2Round ==
    /\ pc = "kg_power2round"
    /\ kg' = [kg EXCEPT !.t1 = power2round_hi(kg.t), !.t0 = power2round_lo(kg.t)]
    /\ form' = [form EXCEPT !["t1"] = "normal", !["t0"] = "normal"]
    /\ lastOp' = Applied("power2round", <<form["t"]>>)
    /\ pc' = "kg_pack_pk"
    /\ UNCHANGED <<io, bufs, calls, cerr, sg, vf, lp>>

KeygenPackPk ==
    /\ pc = "kg_pack_pk"
    /\ pubkey' = Store(Store(pubkey, 0, kg_rho), 32, encode(kg.t1, t1_bw))
    /\ lastOp' = Applied("encode", <<form["t1"]>>)
    /\ pc' = "kg_hash_pk"
    /\ UNCHANGED <<io, seckey, sig, calls, cerr, kg, sg, vf, form, lp>>

KeygenHashPk ==
    /\ pc = "kg_hash_pk"
    /\ LET h1 == finalize(absorb(reset(kg.hasher), pubkey))
       IN  kg' = [kg EXCEPT !.hasher = h1, !.tr = squeeze(h1, 32)]
    /\ lastOp' = NoOp
    /\ pc' = "kg_sk_header"
    /\ UNCHANGED <<io, bufs, calls, cerr, sg, vf, form, lp>>

KeygenSkHeader ==
    /\ pc = "kg_sk_header"
    /\ seckey' = Store(Store(Store(seckey, 0, kg_rho), 32, kg_key), 64, kg.tr)
    /\ lastOp' = NoOp
    /\ pc' = "kg_sub_from_x"
    /\ UNCHANGED <<io, pubkey, sig, calls, cerr, kg, sg, vf, form, lp>>

KeygenSubFromX ==
    /\ pc = "kg_sub_from_x"
    /\ kg' = [kg EXCEPT !.s1 = sub_from_x(kg.s1, ETA), !.s2 = sub_from_x(kg.s2, ETA)]
    /\ lastOp' = Applied("sub_from_x", <<form["s1"], form["s2"]>>)
    /\ pc' = "kg_mask"
    /\ UNCHANGED <<io, bufs, calls, cerr, sg, vf, form, lp>>

\* try { MaskStr = generateRandomBinaryString(eta); } catch (invalid_argument) { cerr << ... }
\* MaskStr is declared inside the try block: after the handler its value is any string.
KeygenMask ==
    /\ pc = "kg_mask"
    /\ \/ /\ \E str \in BinaryStrings(ETA) : kg' = [kg EXCEPT !.MaskStr = str]
          /\ cerr' = cerr
       \/ /\ \E str \in BinaryStrings(ETA) : kg' = [kg EXCEPT !.MaskStr = str]
          /\ cerr' = Append(cerr, "Error: invalid_argument")
    /\ lastOp' = NoOp
    /\ pc' = "kg_xor"
    /\ UNCHANGED <<io, bufs, calls, sg, vf, form, lp>>

KeygenXor ==
    /\ pc = "kg_xor"
    /\ kg' = [kg EXCEPT !.s1 = xorBinaryStrings(kg.MaskStr, kg.s1),
                        !.s2 = xorBinaryStrings(kg.MaskStr, kg.s2)]
    /\ lastOp' = NoOp
    /\ pc' = "kg_pack_s"
    /\ UNCHANGED <<io, bufs, calls, cerr, sg, vf, form, lp>>

KeygenPackS ==
    /\ pc = "kg_pack_s"
    /\ seckey' = Store(Store(seckey, skoff3, encode(kg.s1, eta_bw)),
                       skoff4, encode(kg.s2, eta_bw))
    /\ lastOp' = Applied("encode", <<form["s1"], form["s2"]>>)
    /\ pc' = "kg_sub_t0"
    /\ UNCHANGED <<io, pubkey, sig, calls, cerr, kg, sg, vf, form, lp>>

KeygenSubT0 ==
    /\ pc = "kg_sub_t0"
    /\ kg' = [kg EXCEPT !.t0 = sub_from_x(kg.t0, t0_rng)]
    /\ lastOp' = Applied("sub_from_x", <<form["t0"]>>)
    /\ pc' = "kg_pack_t0"
    /\ UNCHANGED <<io, bufs, calls, cerr, sg, vf, form, lp>>

KeygenPackT0 ==
    /\ pc = "kg_pack_t0"
    /\ seckey' = Store(seckey, skoff5, encode(kg.t0, D))
    /\ lastOp' = Applied("encode", <<form["t0"]>>)
    /\ pc' = "sign"
    /\ UNCHANGED <<io, pubkey, sig, calls, cerr, kg, sg, vf, form, lp>>

\* ------------------------------------------------------------ sign
sign_frame ==
    [hasher |-> hasher_new, A |-> ZeroVec(K * L), mu |-> Rep(0, 64),
     rho_prime |-> Rep(0, 64), s1 |-> ZeroVec(L), s2 |-> ZeroVec(K),
     t0 |-> ZeroVec(K), has_signed |-> FALSE, kappa |-> 0, iter |-> 0,
     z |-> ZeroVec(L), h |-> ZeroVec(K), hash_out |-> Rep(0, 32),
     y |-> ZeroVec(L), y_prime |-> ZeroVec(L), w |-> ZeroVec(K),
     w1 |-> ZeroVec(K), c |-> ZeroPoly, r0 |-> ZeroVec(K), r1 |-> ZeroVec(K),
     h0 |-> ZeroVec(K), h1 |-> ZeroVec(K),
     z_norm |-> 0, r0_norm |-> 0, ct0_norm |-> 0, count_1 |-> 0]

sg_rho == Slice(seckey, 0, 32)
sg_key == Slice(seckey, 32, 32)
sg_tr == Slice(seckey, 64, 32)

sigoff1 == 32
sigoff2 == sigoff1 + (N \div 8) * L * gamma1_bw

\* entry of sign: fresh locals; the caller passes a 64-byte seed only when randomized
SignEnter ==
    /\ pc = "sign"
    /\ sg' = sign_frame
    /\ \E sd \in (IF randomized THEN RndSeeds ELSE {<<>>}) : rnd_seed' = sd
    /\ form' = NoForms
    /\ lastOp' = NoOp
    /\ pc' = "sg_expand_a"
    /\ UNCHANGED <<seed, msg, randomized, bufs, calls, cerr, kg, vf, lp>>

SignExpandA ==
    /\ pc = "sg_expand_a"
    /\ sg' = [sg EXCEPT !.A = expand_a(sg_rho)]
    /\ form' = [form EXCEPT !["A"] = "ntt"]
    /\ lastOp' = NoOp
    /\ pc' = "sg_mu"
    /\ UNCHANGED <<io, bufs, calls, cerr, kg, vf, lp>>

SignMu ==
    /\ pc = "sg_mu"
    /\ LET h1 == finalize(absorb(absorb(hasher_new, sg_tr), msg))
       IN  sg' = [sg EXCEPT !.hasher = h1, !.mu = squeeze(h1, 64)]
    /\ lastOp' = NoOp
    /\ pc' = "sg_rho_prime"
    /\ UNCHANGED <<io, bufs, calls, cerr, kg, vf, form, lp>>

\* SignRhoPrime without hasher.reset(): tr and msg are still in the sponge
SignRhoPrime_NoReset ==
    /\ pc = "sg_rho_prime"
    /\ IF randomized
       THEN sg' = [sg EXCEPT !.rho_prime = Store(sg.rho_prime, 0, rnd_seed)]
       ELSE LET crh_in == sg_key \o sg.mu
                h1 == finalize(absorb(sg.hasher, crh_in))
            IN  sg' = [sg EXCEPT !.hasher = h1, !.rho_prime = squeeze(h1, 64)]
    /\ lastOp' = NoOp
    /\ pc' = "sg_decode_sk"
    /\ UNCHANGED <<io, bufs, calls, cerr, kg, vf, form, lp>>

SignRhoPrime ==
    /\ pc = "sg_rho_prime"
    /\ IF randomized
       THEN sg' = [sg EXCEPT !.rho_prime = Store(sg.rho_prime, 0, rnd_seed)]
       ELSE LET crh_in == sg_key \o sg.mu
                h1 == finalize(absorb(reset(sg.hasher), crh_in))
            IN  sg' = [sg EXCEPT !.hasher = h1, !.rho_prime = squeeze(h1, 64)]
    /\ lastOp' = NoOp
    /\ pc' = "sg_decode_sk"
    /\ UNCHANGED <<io, bufs, calls, cerr, kg, vf, form, lp>>

SignDecodeSk ==
    /\ pc = "sg_decode_sk"
    /\ sg' = [sg EXCEPT
                !.s1 = decode(Slice(seckey, skoff3, skoff4 - skoff3), L, eta_bw),
                !.s2 = decode(Slice(seckey, skoff4, skoff5 - skoff4), K, eta_bw),
                !.t0 = decode(Slice(seckey, skoff5, sec_key_len - skoff5), K, D)]
    /\ form' = [form EXCEPT !["s1"] = "normal", !["s2"] = "normal", !["t0"] = "normal"]
    /\ lastOp' = NoOp
    /\ pc' = "sg_sub_from_x"
    /\ UNCHANGED <<io, bufs, calls, cerr, kg, vf, lp>>

SignSubFromX ==
    /\ pc = "sg_sub_from_x"
    /\ sg' = [sg EXCEPT !.s1 = sub_from_x(sg.s1, ETA),
                        !.s2 = sub_from_x(sg.s2, ETA),
                        !.t0 = sub_from_x(sg.t0, t0_rng)]
    /\ lastOp' = Applied("sub_from_x", <<form["s1"], form["s2"], form["t0"]>>)
    /\ pc' = "sg_ntt_sk"
    /\ UNCHANGED <<io, bufs, calls, cerr, kg, vf, form, lp>>

SignNttSk ==
    /\ pc = "sg_ntt_sk"
    /\ sg' = [sg EXCEPT !.s1 = polyvec_ntt(sg.s1), !.s2 = polyvec_ntt(sg.s2),
                        !.t0 = polyvec_ntt(sg.t0)]
    /\ form' = [form EXCEPT !["s1"] = "ntt", !["s2"] = "ntt", !["t0"] = "ntt"]
    /\ lastOp' = Applied("ntt", <<form["s1"], form["s2"], form["t0"]>>)
    /\ pc' = "sg_loop_init"
    /\ UNCHANGED <<io, bufs, calls, cerr, kg, vf, lp>>

SignLoopInit ==
    /\ pc = "sg_loop_init"
    /\ sg' = [sg EXCEPT !.has_signed = FALSE, !.kappa = 0, !.z = ZeroVec(L),
                        !.h = ZeroVec(K), !.hash_out = Rep(0, 32)]
    /\ form' = [form EXCEPT !["z"] = "zero", !["h"] = "zero"]
    /\ lastOp' = NoOp
    /\ pc' = "sg_while"
    /\ UNCHANGED <<io, bufs, calls, cerr, kg, vf, lp>>

\* while (!has_signed) { y{}, y_prime{}, w{} ... : the body's locals start afresh
SignWhile ==
    /\ pc = "sg_while"
    /\ \/ /\ ~sg.has_signed
          /\ sg.iter < MaxIter
          /\ sg' = [sg EXCEPT !.iter = @ + 1,
                       !.y = ZeroVec(L), !.y_prime = ZeroVec(L), !.w = ZeroVec(K),
                       !.w1 = ZeroVec(K), !.c = ZeroPoly, !.r0 = ZeroVec(K),
                       !.r1 = ZeroVec(K), !.h0 = ZeroVec(K), !.h1 = ZeroVec(K),
                       !.z_norm = 0, !.r0_norm = 0, !.ct0_norm = 0, !.count_1 = 0]
          /\ form' = [n \in FormNames |->
                        IF n \in {"y", "y_prime", "w", "w1", "c", "r0", "r1", "h0", "h1"}
                        THEN "zero" ELSE form[n]]
          /\ pc' = "sg_expand_mask"
       \/ /\ sg.has_signed
          /\ UNCHANGED <<sg, form>>
          /\ pc' = "sg_pack_hash"
    /\ lastOp' = NoOp
    /\ UNCHANGED <<io, bufs, calls, cerr, kg, vf, lp>>

SignExpandMask ==
    /\ pc = "sg_expand_mask"
    /\ sg' = [sg EXCEPT !.y = expand_mask(sg.rho_prime, sg.kappa)]
    /\ form' = [form EXCEPT !["y"] = "normal"]
    /\ lastOp' = NoOp
    /\ pc' = "sg_ntt_y"
    /\ UNCHANGED <<io, bufs, calls, cerr, kg, vf, lp>>

\* SignNttY with the transform left out: y_prime is y, still in normal form
SignNttY_Skip ==
    /\ pc = "sg_ntt_y"
    /\ sg' = [sg EXCEPT !.y_prime = sg.y]
    /\ form' = [form EXCEPT !["y_prime"] = form["y"]]
    /\ lastOp' = NoOp
    /\ pc' = "sg_matrix_multiply"
    /\ UNCHANGED <<io, bufs, calls, cerr, kg, vf, lp>>

\* std::copy(y, y_prime); polyvec::ntt<l>(y_prime)
SignNttY ==
    /\ pc = "sg_ntt_y"
    /\ sg' = [sg EXCEPT !.y_prime = polyvec_ntt(sg.y)]
    /\ form' = [form EXCEPT !["y_prime"] = "ntt"]
    /\ lastOp' = Applied("ntt", <<form["y"]>>)
    /\ pc' = "sg_matrix_multiply"
    /\ UNCHANGED <<io, bufs, calls, cerr, kg, vf, lp>>

SignMatrixMultiply ==
    /\ pc = "sg_matrix_multiply"
    /\ sg' = [sg EXCEPT !.w = matrix_multiply(sg.A, sg.y_prime)]
    /\ form' = [form EXCEPT !["w"] = "ntt"]
    /\ lastOp' = Applied("matrix_multiply", <<form["A"], form["y_prime"]>>)
    /\ pc' = "sg_intt_w"
    /\ UNCHANGED <<io, bufs, calls, cerr, kg, vf, lp>>

SignInttW ==
    /\ pc = "sg_intt_w"
    /\ sg' = [sg EXCEPT !.w = polyvec_intt(sg.w)]
    /\ form' = [form EXCEPT !["w"] = "normal"]
    /\ lastOp' = Applied("intt", <<form["w"]>>)
    /\ pc' = "sg_highbits"
    /\ UNCHANGED <<io, bufs, calls, cerr, kg, vf, lp>>

SignHighBits ==
    /\ pc = "sg_highbits"
    /\ sg' = [sg EXCEPT !.w1 = highbits(sg.w)]
    /\ form' = [form EXCEPT !["w1"] = "normal"]
    /\ lastOp' = Applied("highbits", <<form["w"]>>)
    /\ pc' = "sg_hash_w1"
    /\ UNCHANGED <<io, bufs, calls, cerr, kg, vf, lp>>

SignHashW1 ==
    /\ pc = "sg_hash_w1"
    /\ LET hash_in == sg.mu \o encode(sg.w1, w1bw)
           h1 == finalize(absorb(reset(sg.hasher), hash_in))
       IN  sg' = [sg EXCEPT !.hasher = h1, !.hash_out = squeeze(h1, 32)]
    /\ lastOp' = Applied("encode", <<form["w1"]>>)
    /\ pc' = "sg_challenge"
    /\ UNCHANGED <<io, bufs, calls, cerr, kg, vf, form, lp>>

\* sampling::sample_in_ball<tau>(hash_out, c); ntt::ntt(c)
SignChallenge ==
    /\ pc = "sg_challenge"
    /\ sg' = [sg EXCEPT !.c = ntt_poly(sample_in_ball(sg.hash_out))]
    /\ form' = [form EXCEPT !["c"] = "ntt"]
    /\ lastOp' = NoOp
    /\ pc' = "sg_mul_s1"
    /\ UNCHANGED <<io, bufs, calls, cerr, kg, vf, lp>>

SignMulS1 ==
    /\ pc = "sg_mul_s1"
    /\ sg' = [sg EXCEPT !.z = mul_by_poly(sg.c, sg.s1)]
    /\ form' = [form EXCEPT !["z"] = "ntt"]
    /\ lastOp' = Applied("mul_by_poly", <<form["c"], form["s1"]>>)
    /\ pc' = "sg_intt_z"
    /\ UNCHANGED <<io, bufs, calls, cerr, kg, vf, lp>>

SignInttZ ==
    /\ pc = "sg_intt_z"
    /\ sg' = [sg EXCEPT !.z = polyvec_intt(sg.z)]
    /\ form' = [form EXCEPT !["z"] = "normal"]
    /\ lastOp' = Applied("intt", <<form["z"]>>)
    /\ pc' = "sg_add_y_z"
    /\ UNCHANGED <<io, bufs, calls, cerr, kg, vf, lp>>

SignAddYZ ==
    /\ pc = "sg_add_y_z"
    /\ sg' = [sg EXCEPT !.z = add_to(sg.y, sg.z)]
    /\ lastOp' = Applied("add_to", <<form["y"], form["z"]>>)
    /\ pc' = "sg_mul_s2"
    /\ UNCHANGED <<io, bufs, calls, cerr, kg, vf, form, lp>>

SignMulS2 ==
    /\ pc = "sg_mul_s2"
    /\ sg' = [sg EXCEPT !.r1 = mul_by_poly(sg.c, sg.s2)]
    /\ form' = [form EXCEPT !["r1"] = "ntt"]
    /\ lastOp' = Applied("mul_by_poly", <<form["c"], form["s2"]>>)
    /\ pc' = "sg_intt_r1"
    /\ UNCHANGED <<io, bufs, calls, cerr, kg, vf, lp>>

\* polyvec::intt<k>(r1); polyvec::neg<k>(r1)
SignInttNegR1 ==
    /\ pc = "sg_intt_r1"
    /\ sg' = [sg EXCEPT !.r1 = neg(polyvec_intt(sg.r1))]
    /\ form' = [form EXCEPT !["r1"] = "normal"]
    /\ lastOp' = Applied("intt", <<form["r1"]>>)
    /\ pc' = "sg_add_w_r1"
    /\ UNCHANGED <<io, bufs, calls, cerr, kg, vf, lp>>

SignAddWR1 ==
    /\ pc = "sg_add_w_r1"
    /\ sg' = [sg EXCEPT !.r1 = add_to(sg.w, sg.r1)]
    /\ lastOp' = Applied("add_to", <<form["w"], form["r1"]>>)
    /\ pc' = "sg_lowbits"
    /\ UNCHANGED <<io, bufs, calls, cerr, kg, vf, form, lp>>

SignLowBits ==
    /\ pc = "sg_lowbits"
    /\ sg' = [sg EXCEPT !.r0 = lowbits(sg.r1)]
    /\ form' = [form EXCEPT !["r0"] = "normal"]
    /\ lastOp' = Applied("lowbits", <<form["r1"]>>)
    /\ pc' = "sg_norms"
    /\ UNCHANGED <<io, bufs, calls, cerr, kg, vf, lp>>

\* z_norm, r0_norm, flg0, flg1, flg2; has_signed = !flg2
SignNorms ==
    /\ pc = "sg_norms"
    /\ LET z_norm == infinity_norm(sg.z)
           r0_norm == infinity_norm(sg.r0)
           flg0 == z_norm >= GAMMA1 - BETA
           flg1 == r0_norm >= GAMMA2 - BETA
           flg2 == flg0 \/ flg1
       IN  sg' = [sg EXCEPT !.z_norm = z_norm, !.r0_norm = r0_norm,
                            !.has_signed = ~flg2]
    /\ lastOp' = Applied("infinity_norm", <<form["z"], form["r0"]>>)
    /\ pc' = "sg_mul_t0"
    /\ UNCHANGED <<io, bufs, calls, cerr, kg, vf, form, lp>>

SignMulT0 ==
    /\ pc = "sg_mul_t0"
    /\ sg' = [sg EXCEPT !.h0 = mul_by_poly(sg.c, sg.t0)]
    /\ form' = [form EXCEPT !["h0"] = "ntt"]
    /\ lastOp' = Applied("mul_by_poly", <<form["c"], form["t0"]>>)
    /\ pc' = "sg_intt_h0"
    /\ UNCHANGED <<io, bufs, calls, cerr, kg, vf, lp>>

\* polyvec::intt<k>(h0); std::copy(h0, h1); polyvec::neg<k>(h0)
SignInttH0 ==
    /\ pc = "sg_intt_h0"
    /\ sg' = [sg EXCEPT !.h1 = polyvec_intt(sg.h0), !.h0 = neg(polyvec_intt(sg.h0))]
    /\ form' = [form EXCEPT !["h0"] = "normal", !["h1"] = "normal"]
    /\ lastOp' = Applied("intt", <<form["h0"]>>)
    /\ pc' = "sg_add_h1_r1"
    /\ UNCHANGED <<io, bufs, calls, cerr, kg, vf, lp>>

SignAddH1R1 ==
    /\ pc = "sg_add_h1_r1"
    /\ sg' = [sg EXCEPT !.r1 = add_to(sg.h1, sg.r1)]
    /\ lastOp' = Applied("add_to", <<form["h1"], form["r1"]>>)
    /\ pc' = "sg_make_hint"
    /\ UNCHANGED <<io, bufs, calls, cerr, kg, vf, form, lp>>

SignMakeHint ==
    /\ pc = "sg_make_hint"
    /\ sg' = [sg EXCEPT !.h = make_hint(sg.h0, sg.r1)]
    /\ form' = [form EXCEPT !["h"] = "normal"]
    /\ lastOp' = Applied("make_hint", <<form["h0"], form["r1"]>>)
    /\ pc' = "sg_hint_norms"
    /\ UNCHANGED <<io, bufs, calls, cerr, kg, vf, lp>>

\* ct0_norm, count_1, flg3, flg4, flg5; has_signed = has_signed & !flg5
SignHintNorms ==
    /\ pc = "sg_hint_norms"
    /\ LET ct0_norm == infinity_norm(sg.h1)
           count_1 == count_1s(sg.h)
           flg3 == ct0_norm >= GAMMA2
           flg4 == count_1 > OMEGA
           flg5 == flg3 \/ flg4
       IN  sg' = [sg EXCEPT !.ct0_norm = ct0_norm, !.count_1 = count_1,
                            !.has_signed = sg.has_signed /\ ~flg5]
    /\ lastOp' = Applied("infinity_norm", <<form["h1"]>>)
    /\ pc' = "sg_kappa"
    /\ UNCHANGED <<io, bufs, calls, cerr, kg, vf, form, lp>>

\* kappa += static_cast<uint16_t>(l)
SignKappa ==
    /\ pc = "sg_kappa"
    /\ sg' = [sg EXCEPT !.kappa = (sg.kappa + L) % 65536]
    /\ lastOp' = NoOp
    /\ pc' = "sg_while"
    /\ UNCHANGED <<io, bufs, calls, cerr, kg, vf, form, lp>>

SignPackHash ==
    /\ pc = "sg_pack_hash"
    /\ sig' = Store(sig, 0, sg.hash_out)
    /\ lastOp' = NoOp
    /\ pc' = "sg_sub_z"
    /\ UNCHANGED <<io, pubkey, seckey, calls, cerr, kg, sg, vf, form, lp>>

SignSubZ ==
    /\ pc = "sg_sub_z"
    /\ sg' = [sg EXCEPT !.z = sub_from_x(sg.z, GAMMA1)]
    /\ lastOp' = Applied("sub_from_x", <<form["z"]>>)
    /\ pc' = "sg_encode_z"
    /\ UNCHANGED <<io, bufs, calls, cerr, kg, vf, form, lp>>

SignEncodeZ ==
    /\ pc = "sg_encode_z"
    /\ sig' = Store(sig, sigoff1, encode(sg.z, gamma1_bw))
    /\ lastOp' = Applied("encode", <<form["z"]>>)
    /\ pc' = "sg_encode_hint"
    /\ UNCHANGED <<io, pubkey, seckey, calls, cerr, kg, sg, vf, form, lp>>

\* the last statement of sign; the caller signs the same message a second time
SignEncodeHint ==
    /\ pc = "sg_encode_hint"
    /\ sig' = Store(sig, sigoff2, encode_hint_bits(sg.h))
    /\ lastOp' = NoOp
    /\ IF call = 1
       THEN /\ call' = 2
            /\ sig1' = sig'
            /\ pc' = "sign"
       ELSE /\ UNCHANGED <<call, sig1>>
            /\ pc' = "verify"
    /\ UNCHANGED <<io, pubkey, seckey, vmsg, vsig, result, cerr, kg, sg, vf, form, lp>>

\* ------------------------------------------------------------ verify
verify_frame ==
    [hasher |-> hasher_new, A |-> ZeroVec(K * L), t1 |-> ZeroVec(K),
     crh_in |-> Rep(0, 32), mu |-> Rep(0, 64), c |-> ZeroPoly,
     z |-> ZeroVec(L), h |-> ZeroVec(K), failed |-> FALSE,
     w0 |-> ZeroVec(K), w1 |-> ZeroVec(K), w2 |-> ZeroVec(K),
     z_norm |-> 0, count_1 |-> 0, hash_out |-> Rep(0, 32),
     flg0 |-> FALSE, flg1 |-> FALSE, flg2 |-> FALSE, flg3 |-> FALSE, flg4 |-> FALSE]

\* what the caller hands to verify: the signature as written, or altered
Tampers ==
    {[kind |-> "none", at |-> 0, bytes |-> <<>>],
     [kind |-> "msg", at |-> 0, bytes |-> <<1>>],
     [kind |-> "xor", at |-> 1, bytes |-> <<1>>],
     [kind |-> "xor", at |-> sig_len, bytes |-> <<1>>],
     [kind |-> "set", at |-> sigoff1 + 1, bytes |-> <<255, 255>>],
     [kind |-> "set", at |-> sigoff2 + OMEGA, bytes |-> <<5>>],
     [kind |-> "set", at |-> sig_len, bytes |-> <<OMEGA + 1>>]}

Tamper(s, t) ==
    CASE t.kind = "xor" ->
            [i \in 1..Len(s) |-> IF i = t.at THEN XorBits(s[i], t.bytes[1], 8) ELSE s[i]]
      [] t.kind = "set" -> Store(s, t.at - 1, t.bytes)
      [] OTHER -> s

\* entry of verify on keygen's public key
VerifyEnter ==
    /\ pc = "verify"
    /\ \E t \in Tampers :
          /\ vsig' = Tamper(sig, t)
          /\ vmsg' = IF t.kind = "msg" THEN msg \o t.bytes ELSE msg
    /\ vf' = verify_frame
    /\ form' = NoForms
    /\ lastOp' = NoOp
    /\ pc' = "vf_expand_a"
    /\ UNCHANGED <<io, bufs, call, sig1, result, cerr, kg, sg, lp>>

VerifyExpandA ==
    /\ pc = "vf_expand_a"
    /\ vf' = [vf EXCEPT !.A = expand_a(Slice(pubkey, 0, 32))]
    /\ form' = [form EXCEPT !["A"] = "ntt"]
    /\ lastOp' = NoOp
    /\ pc' = "vf_decode_t1"
    /\ UNCHANGED <<io, bufs, calls, cerr, kg, sg, lp>>

VerifyDecodeT1 ==
    /\ pc = "vf_decode_t1"
    /\ vf' = [vf EXCEPT !.t1 = decode(Slice(pubkey, 32, pub_key_len - 32), K, t1_bw)]
    /\ form' = [form EXCEPT !["t1"] = "normal"]
    /\ lastOp' = NoOp
    /\ pc' = "vf_mu"
    /\ UNCHANGED <<io, bufs, calls, cerr, kg, sg, lp>>

VerifyMu ==
    /\ pc = "vf_mu"
    /\ LET h1 == finalize(absorb(hasher_new, pubkey))
           crh_in == squeeze(h1, 32)
           h2 == finalize(absorb(absorb(reset(h1), crh_in), vmsg))
       IN  vf' = [vf EXCEPT !.hasher = h2, !.crh_in = crh_in, !.mu = squeeze(h2, 64)]
    /\ lastOp' = NoOp
    /\ pc' = "vf_challenge"
    /\ UNCHANGED <<io, bufs, calls, cerr, kg, sg, form, lp>>

VerifyChallenge ==
    /\ pc = "vf_challenge"
    /\ vf' = [vf EXCEPT !.c = ntt_poly(sample_in_ball(Slice(vsig, 0, 32)))]
    /\ form' = [form EXCEPT !["c"] = "ntt"]
    /\ lastOp' = NoOp
    /\ pc' = "vf_decode_z"
    /\ UNCHANGED <<io, bufs, calls, cerr, kg, sg, lp>>

VerifyDecodeZ ==
    /\ pc = "vf_decode_z"
    /\ vf' = [vf EXCEPT !.z = decode(Slice(vsig, sigoff1, sigoff2 - sigoff1), L, gamma1_bw)]
    /\ form' = [form EXCEPT !["z"] = "normal"]
    /\ lastOp' = NoOp
    /\ pc' = "vf_sub_z"
    /\ UNCHANGED <<io, bufs, calls, cerr, kg, sg, lp>>

VerifySubZ ==
    /\ pc = "vf_sub_z"
    /\ vf' = [vf EXCEPT !.z = sub_from_x(vf.z, GAMMA1)]
    /\ lastOp' = Applied("sub_from_x", <<form["z"]>>)
    /\ pc' = "vf_decode_hint"
    /\ UNCHANGED <<io, bufs, calls, cerr, kg, sg, form, lp>>

VerifyDecodeHint ==
    /\ pc = "vf_decode_hint"
    /\ LET dh == decode_hint_bits(Slice(vsig, sigoff2, sig_len - sigoff2))
       IN  vf' = [vf EXCEPT !.failed = dh.failed, !.h = dh.h]
    /\ form' = [form EXCEPT !["h"] = "normal"]
    /\ lastOp' = NoOp
    /\ pc' = "vf_norm"
    /\ UNCHANGED <<io, bufs, calls, cerr, kg, sg, lp>>

VerifyNorm ==
    /\ pc = "vf_norm"
    /\ vf' = [vf EXCEPT !.z_norm = infinity_norm(vf.z), !.count_1 = count_1s(vf.h)]
    /\ lastOp' = Applied("infinity_norm", <<form["z"]>>)
    /\ pc' = "vf_ntt_z"
    /\ UNCHANGED <<io, bufs, calls, cerr, kg, sg, form, lp>>

VerifyNttZ ==
    /\ pc = "vf_ntt_z"
    /\ vf' = [vf EXCEPT !.z = polyvec_ntt(vf.z)]
    /\ form' = [form EXCEPT !["z"] = "ntt"]
    /\ lastOp' = Applied("ntt", <<form["z"]>>)
    /\ pc' = "vf_matrix_multiply"
    /\ UNCHANGED <<io, bufs, calls, cerr, kg, sg, lp>>

VerifyMatrixMultiply ==
    /\ pc = "vf_matrix_multiply"
    /\ vf' = [vf EXCEPT !.w0 = matrix_multiply(vf.A, vf.z)]
    /\ form' = [form EXCEPT !["w0"] = "ntt"]
    /\ lastOp' = Applied("matrix_multiply", <<form["A"], form["z"]>>)
    /\ pc' = "vf_shl"
    /\ UNCHANGED <<io, bufs, calls, cerr, kg, sg, lp>>

VerifyShl ==
    /\ pc = "vf_shl"
    /\ vf' = [vf EXCEPT !.t1 = shl(vf.t1, D)]
    /\ lastOp' = Applied("shl", <<form["t1"]>>)
    /\ pc' = "vf_ntt_t1"
    /\ UNCHANGED <<io, bufs, calls, cerr, kg, sg, form, lp>>

VerifyNttT1 ==
    /\ pc = "vf_ntt_t1"
    /\ vf' = [vf EXCEPT !.t1 = polyvec_ntt(vf.t1)]
    /\ form' = [form EXCEPT !["t1"] = "ntt"]
    /\ lastOp' = Applied("ntt", <<form["t1"]>>)
    /\ pc' = "vf_mul_t1"
    /\ UNCHANGED <<io, bufs, calls, cerr, kg, sg, lp>>

\* polyvec::mul_by_poly<k>(c, t1, w2); polyvec::neg<k>(w2)
VerifyMulT1 ==
    /\ pc = "vf_mul_t1"
    /\ vf' = [vf EXCEPT !.w2 = neg(mul_by_poly(vf.c, vf.t1))]
    /\ form' = [form EXCEPT !["w2"] = "ntt"]
    /\ lastOp' = Applied("mul_by_poly", <<form["c"], form["t1"]>>)
    /\ pc' = "vf_add"
    /\ UNCHANGED <<io, bufs, calls, cerr, kg, sg, lp>>

VerifyAdd ==
    /\ pc = "vf_add"
    /\ vf' = [vf EXCEPT !.w2 = add_to(vf.w0, vf.w2)]
    /\ lastOp' = Applied("add_to", <<form["w0"], form["w2"]>>)
    /\ pc' = "vf_intt"
    /\ UNCHANGED <<io, bufs, calls, cerr, kg, sg, form, lp>>

VerifyIntt ==
    /\ pc = "vf_intt"
    /\ vf' = [vf EXCEPT !.w2 = polyvec_intt(vf.w2)]
    /\ form' = [form EXCEPT !["w2"] = "normal"]
    /\ lastOp' = Applied("intt", <<form["w2"]>>)
    /\ pc' = "vf_use_hint"
    /\ UNCHANGED <<io, bufs, calls, cerr, kg, sg, lp>>

VerifyUseHint ==
    /\ pc = "vf_use_hint"
    /\ vf' = [vf EXCEPT !.w1 = use_hint(vf.h, vf.w2)]
    /\ form' = [form EXCEPT !["w1"] = "normal"]
    /\ lastOp' = Applied("use_hint", <<form["h"], form["w2"]>>)
    /\ pc' = "vf_hash_w1"
    /\ UNCHANGED <<io, bufs, calls, cerr, kg, sg, lp>>

VerifyHashW1 ==
    /\ pc = "vf_hash_w1"
    /\ LET hash_in == vf.mu \o encode(vf.w1, w1bw)
           h1 == finalize(absorb(reset(vf.hasher), hash_in))
       IN  vf' = [vf EXCEPT !.hasher = h1, !.hash_out = squeeze(h1, 32)]
    /\ lastOp' = Applied("encode", <<form["w1"]>>)
    /\ pc' = "vf_flags"
    /\ UNCHANGED <<io, bufs, calls, cerr, kg, sg, form, lp>>

\* flg1 |= sig[i] ^ hash_out[i] over the 32 bytes of the hash
HashDiffers(s, hash_out) == \E i \in 1..Len(hash_out) : XorBits(s[i], hash_out[i], 8) # 0

\* VerifyFlags with the result of decode_hint_bits left out of flg4
VerifyFlags_IgnoreFailed ==
    /\ pc = "vf_flags"
    /\ LET flg0 == vf.z_norm < GAMMA1 - BETA
           flg1 == HashDiffers(vsig, vf.hash_out)
           flg2 == vf.count_1 <= OMEGA
           flg3 == flg0 /\ ~flg1 /\ flg2
           flg4 == flg3
       IN  vf' = [vf EXCEPT !.flg0 = flg0, !.flg1 = flg1, !.flg2 = flg2,
                            !.flg3 = flg3, !.flg4 = flg4]
    /\ lastOp' = NoOp
    /\ pc' = "vf_return"
    /\ UNCHANGED <<io, bufs, calls, cerr, kg, sg, form, lp>>

VerifyFlags ==
    /\ pc = "vf_flags"
    /\ LET flg0 == vf.z_norm < GAMMA1 - BETA
           flg1 == HashDiffers(vsig, vf.hash_out)
           flg2 == vf.count_1 <= OMEGA
           flg3 == flg0 /\ ~flg1 /\ flg2
           flg4 == ~vf.failed /\ flg3
       IN  vf' = [vf EXCEPT !.flg0 = flg0, !.flg1 = flg1, !.flg2 = flg2,
                            !.flg3 = flg3, !.flg4 = flg4]
    /\ lastOp' = NoOp
    /\ pc' = "vf_return"
    /\ UNCHANGED <<io, bufs, calls, cerr, kg, sg, form, lp>>

\* VerifyReturn returning flg3 in place of flg4
VerifyReturn_Flg3 ==
    /\ pc = "vf_return"
    /\ result' = vf.flg3
    /\ lastOp' = NoOp
    /\ pc' = "done"
    /\ UNCHANGED <<io, bufs, call, sig1, vmsg, vsig, cerr, kg, sg, vf, form, lp>>

VerifyReturn ==
    /\ pc = "vf_return"
    /\ result' = vf.flg4
    /\ lastOp' = NoOp
    /\ pc' = "done"
    /\ UNCHANGED <<io, bufs, call, sig1, vmsg, vsig, cerr, kg, sg, vf, form, lp>>

\* ------------------------------------------------------------ specification
loop_idle == [pc |-> "idle"]

Init ==
    /\ pc = "keygen"
    /\ seed \in Seeds
    /\ msg \in Msgs
    /\ randomized \in BOOLEAN
    /\ rnd_seed = <<>>
    /\ pubkey = Rep(0, pub_key_len)
    /\ seckey = Rep(0, sec_key_len)
    /\ sig = Rep(0, sig_len)
    /\ call = 1
    /\ sig1 = <<>>
    /\ vmsg = <<>>
    /\ vsig = <<>>
    /\ result = FALSE
    /\ cerr = <<>>
    /\ kg = keygen_frame
    /\ sg = sign_frame
    /\ vf = verify_frame
    /\ form = NoForms
    /\ lastOp = NoOp
    /\ lp = loop_idle

Keygen ==
    \/ KeygenHashSeed \/ KeygenExpandA \/ KeygenExpandS \/ KeygenNttS1
    \/ KeygenMatrixMultiply \/ KeygenInttT \/ KeygenAddS2 \/ KeygenPower2Round
    \/ KeygenPackPk \/ KeygenHashPk \/ KeygenSkHeader \/ KeygenSubFromX
    \/ KeygenMask \/ KeygenXor \/ KeygenPackS \/ KeygenSubT0 \/ KeygenPackT0

Sign ==
    \/ SignEnter \/ SignExpandA \/ SignMu \/ SignRhoPrime \/ SignDecodeSk
    \/ SignSubFromX \/ SignNttSk \/ SignLoopInit \/ SignWhile \/ SignExpandMask
    \/ SignNttY \/ SignMatrixMultiply \/ SignInttW \/ SignHighBits \/ SignHashW1
    \/ SignChallenge \/ SignMulS1 \/ SignInttZ \/ SignAddYZ \/ SignMulS2
    \/ SignInttNegR1 \/ SignAddWR1 \/ SignLowBits \/ SignNorms \/ SignMulT0
    \/ SignInttH0 \/ SignAddH1R1 \/ SignMakeHint \/ SignHintNorms \/ SignKappa
    \/ SignPackHash \/ SignSubZ \/ SignEncodeZ \/ SignEncodeHint

Verify ==
    \/ VerifyEnter \/ VerifyExpandA \/ VerifyDecodeT1 \/ VerifyMu \/ VerifyChallenge
    \/ VerifyDecodeZ \/ VerifySubZ \/ VerifyDecodeHint \/ VerifyNorm \/ VerifyNttZ
    \/ VerifyMatrixMultiply \/ VerifyShl \/ VerifyNttT1 \/ VerifyMulT1 \/ VerifyAdd
    \/ VerifyIntt \/ VerifyUseHint \/ VerifyHashW1 \/ VerifyFlags \/ VerifyReturn

Next == Keygen \/ Sign \/ Verify

Spec == Init /\ [][Next]_vars

\* ------------------------------------------------------------ the rejection loop
\* sign's loop (has_signed, kappa, the four bounds) on its own: the norms and the
\* hint weight of an iteration are inputs, every outcome of an iteration occurs,
\* and kappa is the 16-bit counter of the source with l one of the standard values.
LoopExtra == 2            \* iterations followed after kappa has passed 2^16 - 1
LoopLs == {4, 5, 7}

\* the nonces handed to expand_mask so far, as disjoint intervals <<lo, hi>>
Touching(U, a, b) == {iv \in U : iv[1] <= b + 1 /\ a - 1 <= iv[2]}
Overlaps(U, a, b) == \E iv \in U : iv[1] <= b /\ a <= iv[2]
AddRange(U, a, b) ==
    LET T == Touching(U, a, b)
    IN  (U \ T) \cup {<<Min({a} \cup {iv[1] : iv \in T}), Max({b} \cup {iv[2] : iv \in T})>>}

\* the nonces kappa .. kappa + l - 1 as 16-bit values: one range, or two when it wraps
NonceRanges(kappa, l) ==
    IF kappa + l - 1 <= 65535
    THEN {<<kappa, kappa + l - 1>>}
    ELSE {<<kappa, 65535>>, <<0, (kappa + l - 1) % 65536>>}

ReusesNonce(U, kappa, l) == \E r \in NonceRanges(kappa, l) : Overlaps(U, r[1], r[2])

UseNonces(U, kappa, l) ==
    LET rs == NonceRanges(kappa, l)
        r1 == CHOOSE r \in rs : \A q \in rs : r[1] >= q[1]
        U1 == AddRange(U, r1[1], r1[2])
    IN  IF Cardinality(rs) = 1 THEN U1
        ELSE LET r2 == CHOOSE r \in rs : r # r1 IN AddRange(U1, r2[1], r2[2])

\* the four acceptance conditions of an iteration
AllWithinBounds(zn, rn, cn, c1) ==
    zn < GAMMA1 - BETA /\ rn < GAMMA2 - BETA /\ cn < GAMMA2 /\ c1 <= OMEGA

\* hash_it, z_it, h_it: the iteration that last wrote hash_out, z, h;
\* ok_it: the last iteration whose values met all four conditions
loop_frame(l) ==
    [pc |-> "init", l |-> l, has_signed |-> FALSE, kappa |-> 0, iter |-> 0,
     z_norm |-> 0, r0_norm |-> 0, ct0_norm |-> 0, count_1 |-> 0,
     hash_it |-> 0, z_it |-> 0, h_it |-> 0, ok_it |-> 0,
     sig |-> [hash |-> 0, z |-> 0, h |-> 0],
     used |-> {}, reused |-> FALSE]

others == <<pc, seed, msg, randomized, rnd_seed, pubkey, seckey, sig, call, sig1,
            vmsg, vsig, result, cerr, kg, sg, vf, form, lastOp>>

\* bool has_signed = false; uint16_t kappa = 0; z{}, h{}, hash_out{}
LoopStart ==
    /\ lp.pc = "init"
    /\ lp' = [lp EXCEPT !.pc = "while", !.has_signed = FALSE, !.kappa = 0,
                        !.hash_it = 0, !.z_it = 0, !.h_it = 0]
    /\ UNCHANGED others

\* while (!has_signed)
LoopWhile ==
    /\ lp.pc = "while"
    /\ \/ /\ ~lp.has_signed
          /\ lp.iter < (65536 \div lp.l) + LoopExtra
          /\ lp' = [lp EXCEPT !.pc = "expand_mask", !.iter = @ + 1]
       \/ /\ lp.has_signed
          /\ lp' = [lp EXCEPT !.pc = "serialize"]
    /\ UNCHANGED others

\* expand_mask(rho_prime, kappa, y): the nonces kappa .. kappa + l - 1
LoopExpandMask ==
    /\ lp.pc = "expand_mask"
    /\ lp' = [lp EXCEPT !.pc = "norms",
                        !.reused = @ \/ ReusesNonce(lp.used, lp.kappa, lp.l),
                        !.used = UseNonces(@, lp.kappa, lp.l)]
    /\ UNCHANGED others

\* lines 239-290: hash_out and z are written, then z_norm, r0_norm, flg0..flg2
LoopNorms ==
    /\ lp.pc = "norms"
    /\ \E zn \in {GAMMA1 - BETA - 1, GAMMA1 - BETA},
          rn \in {GAMMA2 - BETA - 1, GAMMA2 - BETA} :
          LET flg0 == zn >= GAMMA1 - BETA
              flg1 == rn >= GAMMA2 - BETA
              flg2 == flg0 \/ flg1
          IN  lp' = [lp EXCEPT !.pc = "hint_norms", !.z_norm = zn, !.r0_norm = rn,
                               !.hash_it = lp.iter, !.z_it = lp.iter,
                               !.has_signed = ~flg2]
    /\ UNCHANGED others

\* LoopHintNorms with has_signed = !flg5, forgetting the z / r0 verdict
LoopHintNorms_Overwrite ==
    /\ lp.pc = "hint_norms"
    /\ \E cn \in {GAMMA2 - 1, GAMMA2}, c1 \in {OMEGA, OMEGA + 1} :
          LET flg3 == cn >= GAMMA2
              flg4 == c1 > OMEGA
              flg5 == flg3 \/ flg4
          IN  lp' = [lp EXCEPT !.pc = "kappa", !.ct0_norm = cn, !.count_1 = c1,
                               !.h_it = lp.iter,
                               !.ok_it = IF AllWithinBounds(lp.z_norm, lp.r0_norm, cn, c1)
                                         THEN lp.iter ELSE @,
                               !.has_signed = ~flg5]
    /\ UNCHANGED others

\* lines 292-311: h is written, then ct0_norm, count_1, flg3..flg5
LoopHintNorms ==
    /\ lp.pc = "hint_norms"
    /\ \E cn \in {GAMMA2 - 1, GAMMA2}, c1 \in {OMEGA, OMEGA + 1} :
          LET flg3 == cn >= GAMMA2
              flg4 == c1 > OMEGA
              flg5 == flg3 \/ flg4
          IN  lp' = [lp EXCEPT !.pc = "kappa", !.ct0_norm = cn, !.count_1 = c1,
                               !.h_it = lp.iter,
                               !.ok_it = IF AllWithinBounds(lp.z_norm, lp.r0_norm, cn, c1)
                                         THEN lp.iter ELSE @,
                               !.has_signed = lp.has_signed /\ ~flg5]
    /\ UNCHANGED others

\* LoopKappa advancing kappa only after a rejected iteration
LoopKappa_OnReject ==
    /\ lp.pc = "kappa"
    /\ lp' = [lp EXCEPT !.pc = "while",
                        !.kappa = IF lp.has_signed THEN @ ELSE (lp.kappa + lp.l) % 65536,
                        !.z_norm = 0, !.r0_norm = 0, !.ct0_norm = 0, !.count_1 = 0]
    /\ UNCHANGED others

\* LoopKappa advancing kappa by l - 1
LoopKappa_Short ==
    /\ lp.pc = "kappa"
    /\ lp' = [lp EXCEPT !.pc = "while", !.kappa = (lp.kappa + lp.l - 1) % 65536,
                        !.z_norm = 0, !.r0_norm = 0, !.ct0_norm = 0, !.count_1 = 0]
    /\ UNCHANGED others

\* kappa += static_cast<uint16_t>(l); the body's locals end with the iteration
LoopKappa ==
    /\ lp.pc = "kappa"
    /\ lp' = [lp EXCEPT !.pc = "while", !.kappa = (lp.kappa + lp.l) % 65536,
                        !.z_norm = 0, !.r0_norm = 0, !.ct0_norm = 0, !.count_1 = 0]
    /\ UNCHANGED others

\* lines 315-324: hash_out, z and h go into the signature
LoopSerialize ==
    /\ lp.pc = "serialize"
    /\ lp' = [lp EXCEPT !.pc = "done",
                        !.sig = [hash |-> lp.hash_it, z |-> lp.z_it, h |-> lp.h_it]]
    /\ UNCHANGED others

LoopInit ==
    /\ pc = "loop"
    /\ seed = <<>>
    /\ msg = <<>>
    /\ randomized = FALSE
    /\ rnd_seed = <<>>
    /\ pubkey = <<>>
    /\ seckey = <<>>
    /\ sig = <<>>
    /\ call = 0
    /\ sig1 = <<>>
    /\ vmsg = <<>>
    /\ vsig = <<>>
    /\ result = FALSE
    /\ cerr = <<>>
    /\ kg = <<>>
    /\ sg = <<>>
    /\ vf = <<>>
    /\ form = <<>>
    /\ lastOp = NoOp
    /\ \E l \in LoopLs : lp = loop_frame(l)

LoopNext ==
    \/ LoopStart \/ LoopWhile \/ LoopExpandMask \/ LoopNorms \/ LoopHintNorms
    \/ LoopKappa \/ LoopSerialize

LoopSpec == LoopInit /\ [][LoopNext]_vars

\* ------------------------------------------------------------ properties
\* C1: round trip. Whenever verify has returned on keygen's public key, the message
\* that was signed and the signature exactly as sign wrote it in deterministic mode,
\* it has returned true.
C1_RoundTrip ==
    (pc = "done" /\ ~randomized /\ vmsg = msg /\ vsig = sig) => result

\* the signature's parts as verify decodes them
DecodedZ == sub_from_x(decode(Slice(vsig, sigoff1, sigoff2 - sigoff1), L, gamma1_bw), GAMMA1)
DecodedHint == decode_hint_bits(Slice(vsig, sigoff2, sig_len - sigoff2))

\* C2: verify returns true if and only if hint decoding did not fail, the infinity
\* norm of the decoded z is below gamma1 - beta, the decoded h holds at most omega
\* ones, and the recomputed hash equals the first 32 bytes of the signature.
C2_VerifyIff ==
    pc = "done" =>
        (result <=> /\ ~DecodedHint.failed
                    /\ infinity_norm(DecodedZ) < GAMMA1 - BETA
                    /\ count_1s(DecodedHint.h) <= OMEGA
                    /\ vf.hash_out = Slice(vsig, 0, 32))

C2_Witness == pc = "done" /\ result /\ vsig = sig /\ vmsg = msg

\* C3: with randomized = false a second call of sign on the same secret key and
\* message writes the same signature as the first, and rho_prime is
\* SHAKE256(K || SHAKE256(tr || msg)); with randomized = true rho_prime is the
\* caller's 64-byte seed.
C3_Deterministic ==
    /\ (pc = "verify" /\ ~randomized) => sig = sig1
    /\ pc = "sg_decode_sk" =>
          sg.rho_prime =
              IF randomized THEN rnd_seed
              ELSE XofBytes(XofInit(sg_key \o XofBytes(XofInit(sg_tr \o msg, 1), 64), 1), 64)

C3_Witness == pc = "verify" /\ ~randomized /\ call = 2 /\ sig = sig1 /\ sg.iter > 1

\* C4: once keygen has encoded s1 and s2, their segments of the secret key are the
\* packing of eta - s1 and eta - s2 for the vectors sampled by expand_s, unmasked.
C4_NoMasking ==
    pc \in {"kg_sub_t0", "kg_pack_t0", "sign"} =>
        /\ Slice(seckey, skoff3, skoff4 - skoff3)
              = encode(sub_from_x(expand_s(kg_rho_prime, L, 0), ETA), eta_bw)
        /\ Slice(seckey, skoff4, skoff5 - skoff4)
              = encode(sub_from_x(expand_s(kg_rho_prime, K, L), ETA), eta_bw)

\* C5: keygen never catches an exception or emits an error report: nothing is ever
\* written to the error stream.
C5_NoErrorReport == cerr = <<>>

\* C6 as stated: after decode_hint_bits has reported failure, verify performs none
\* of the later steps (norms, NTT, matrix multiplication, use_hint, hashing).
C6_RejectsImmediately ==
    vf.failed => pc \notin {"vf_ntt_z", "vf_matrix_multiply", "vf_shl", "vf_ntt_t1",
                            "vf_mul_t1", "vf_add", "vf_intt", "vf_use_hint",
                            "vf_hash_w1", "vf_flags", "vf_return"}

\* C6 amended: when decode_hint_bits has reported failure verify returns false, and
\* it does so at its end, after also hashing the w1' it computed from the hint
\* decode_hint_bits left.
C6_RejectsAtEnd ==
    (pc = "done" /\ vf.failed) =>
        /\ ~result
        /\ vf.w1 = use_hint(vf.h, vf.w2)
        /\ vf.hash_out = XofBytes(XofInit(vf.mu \o encode(vf.w1, w1bw), 1), 32)

C6_Witness == pc = "done" /\ vf.failed /\ ~result /\ vf.flg3

\* C9: form discipline. matrix_multiply and mul_by_poly get operands in NTT form,
\* add_to gets two vectors of one form, and infinity_norm, power2round, highbits,
\* lowbits, make_hint, use_hint, sub_from_x, shl and encode get vectors in normal
\* form; verify takes the norm of z before it transforms z.
C9_FormDiscipline ==
    /\ lastOp.op \in {"matrix_multiply", "mul_by_poly"} =>
          \A i \in 1..Len(lastOp.forms) : lastOp.forms[i] = "ntt"
    /\ lastOp.op = "add_to" => lastOp.forms[1] = lastOp.forms[2]
    /\ lastOp.op \in {"infinity_norm", "power2round", "highbits", "lowbits", "make_hint",
                      "use_hint", "sub_from_x", "shl", "encode"} =>
          \A i \in 1..Len(lastOp.forms) : lastOp.forms[i] = "normal"
    /\ pc = "vf_ntt_z" => lastOp.op = "infinity_norm" /\ form["z"] = "normal"

C9_Witness == pc = "vf_shl" /\ lastOp = Applied("matrix_multiply", <<"ntt", "ntt">>)

\* C7: when the rejection loop has ended, hash_out, z and h, and the three parts of
\* the serialized signature, were all written in the final iteration, and that
\* iteration met all four acceptance conditions.
C7_FinalIteration ==
    /\ lp.pc \in {"serialize", "done"} =>
          /\ lp.ok_it = lp.iter
          /\ lp.hash_it = lp.iter /\ lp.z_it = lp.iter /\ lp.h_it = lp.iter
    /\ lp.pc = "done" => lp.sig = [hash |-> lp.iter, z |-> lp.iter, h |-> lp.iter]
    /\ (lp.pc = "kappa" /\ lp.has_signed) =>
          AllWithinBounds(lp.z_norm, lp.r0_norm, lp.ct0_norm, lp.count_1)

C7_Witness == lp.pc = "done" /\ lp.iter = 3 /\ lp.sig.z = 3

\* C8: kappa is 0 in the first iteration and has grown by l (as a 16-bit value) by
\* the end of every iteration, whatever the iteration's outcome: it is always
\* l times the number of iterations completed, modulo 2^16.
C8_KappaSchedule ==
    /\ lp.pc \in {"expand_mask", "norms", "hint_norms", "kappa"} =>
          lp.kappa = ((lp.iter - 1) * lp.l) % 65536
    /\ lp.pc \in {"while", "serialize", "done"} =>
          lp.kappa = (lp.iter * lp.l) % 65536

C8_Witness == lp.pc = "while" /\ lp.has_signed /\ lp.iter = 3 /\ lp.kappa = 3 * lp.l

\* C10 as stated: no nonce is handed to expand_mask twice, however many iterations
\* the loop runs.
C10_NoNonceReuse == ~lp.reused

\* C10 amended: through the first floor(2^16 / l) iterations no nonce is handed to
\* expand_mask twice: the nonces used are exactly 0 .. iter * l - 1.
C10_NoReuseBeforeWrap ==
    (lp.iter <= 65536 \div lp.l /\ lp.pc \in {"norms", "hint_norms", "kappa"}) =>
        /\ ~lp.reused
        /\ lp.used = {<<0, lp.iter * lp.l - 1>>}

C10_Witness ==
    lp.pc = "norms" /\ lp.iter = 65536 \div lp.l /\ ~lp.reused /\ lp.kappa + lp.l > 65530

=============================================================================
